---- MODULE Spec2Model ----
(***************************************************************************)
(* A model of axum-raw-websocket (src/lib.rs): the RawSocketUpgrade        *)
(* extractor (from_request_parts), the replacement of its failure          *)
(* callback (on_failed_upgrade), the finalisation of the upgrade           *)
(* (on_upgrade) with the task it spawns, and the accept-key signer (sign). *)
(*                                                                         *)
(* Header values, keys and tokens are sequences of bytes (0..255), so      *)
(* that letter case, UTF-8 validity, SHA-1 and base64 are computed rather  *)
(* than assumed.  An Option is a sequence of length 0 (None) or 1 (Some).  *)
(***************************************************************************)
EXTENDS Integers, Sequences, FiniteSets, TLC

VARIABLES
    http2,      \* whether the crate is built with feature "http2" (lib.rs:190)
    parts,      \* parts[r]: the http::request::Parts of request r
    transport,  \* transport[r]: the state of request r's hyper OnUpgrade future
    result,     \* result[r]: what the last from_request_parts on parts[r] returned
    ctxs,       \* the RawSocketUpgrade values created so far, in creation order
    tasks,      \* the tasks spawned by on_upgrade, in spawn order
    responses,  \* the responses returned by on_upgrade, in return order
    calls       \* the log of callback / on_failed_upgrade invocations

vars == <<http2, parts, transport, result, ctxs, tasks, responses, calls>>

----------------------------------------------------------------------------
(* Bounds of the model. *)

\* The number of on_failed_upgrade replacements applied to one context.
MaxReplace == 2

\* A cap on the number of contexts ever created.
MaxCtxs == 3

----------------------------------------------------------------------------
(* Options *)

None == << >>
Some(v) == << v >>
IsSome(o) == Len(o) = 1
Unwrap(o) == o[1]

----------------------------------------------------------------------------
(* Byte strings.  Each constant below is the ASCII encoding of the text in *)
(* its comment.                                                            *)

\* "upgrade"
B_upgrade == <<117,112,103,114,97,100,101>>
\* "Upgrade"
B_Upgrade == <<85,112,103,114,97,100,101>>
\* "keep-alive, Upgrade"
B_keepalive_Upgrade == <<107,101,101,112,45,97,108,105,118,101,44,32,85,112,103,114,97,100,101>>
\* "keep-alive"
B_keepalive == <<107,101,101,112,45,97,108,105,118,101>>
\* "upgrade" followed by the byte 0xFF: a legal header value that is not UTF-8
B_upgrade_ff == <<117,112,103,114,97,100,101,255>>
\* "upgrade" followed by U+00E9 (0xC3 0xA9): a value that is UTF-8 but not ASCII
B_upgrade_utf8 == <<117,112,103,114,97,100,101,195,169>>
\* "websocket"
B_websocket == <<119,101,98,115,111,99,107,101,116>>
\* "WebSocket"
B_WebSocket == <<87,101,98,83,111,99,107,101,116>>
\* "websocket, h2c"
B_websocket_h2c == <<119,101,98,115,111,99,107,101,116,44,32,104,50,99>>
\* "h2c"
B_h2c == <<104,50,99>>
\* "13"
B_13 == <<49,51>>
\* "12"
B_12 == <<49,50>>
\* "chat"
B_chat == <<99,104,97,116>>
\* "dGhlIHNhbXBsZSBub25jZQ==" (the sample nonce of RFC 6455)
B_sample_nonce == <<100,71,104,108,73,72,78,104,98,88,66,115,90,83,66,117,98,50,53,106,90,81,61,61>>
\* "abc"
B_abc == <<97,98,99>>
\* "258EAFA5-E914-47DA-95CA-C5AB0DC85B11"
B_guid == <<50,53,56,69,65,70,65,53,45,69,57,49,52,45,52,55,68,65,45,57,53,67,65,45,67,53,65,66,48,68,67,56,53,66,49,49>>

\* u8::to_ascii_lowercase
to_ascii_lowercase_u8(b) == IF b >= 65 /\ b <= 90 THEN b + 32 ELSE b

\* str::to_ascii_lowercase
to_ascii_lowercase(s) == [i \in 1 .. Len(s) |-> to_ascii_lowercase_u8(s[i])]

\* <[u8]>::eq_ignore_ascii_case
eq_ignore_ascii_case(a, b) ==
    /\ Len(a) = Len(b)
    /\ \A i \in 1 .. Len(a) : to_ascii_lowercase_u8(a[i]) = to_ascii_lowercase_u8(b[i])

\* str::contains(&str): pat occurs in s as a contiguous substring
contains(s, pat) ==
    \E i \in 0 .. (Len(s) - Len(pat)) :
        \A j \in 1 .. Len(pat) : s[i + j] = pat[j]

\* A continuation byte of UTF-8.
IsCont(b) == b >= 128 /\ b <= 191

\* std::str::from_utf8(..).is_ok(): s, from position i on, is well-formed UTF-8.
RECURSIVE Utf8From(_, _)
Utf8From(s, i) ==
    IF i > Len(s) THEN TRUE
    ELSE LET b == s[i]
             at(k) == IF i + k <= Len(s) THEN s[i + k] ELSE 0
         IN  IF b <= 127 THEN Utf8From(s, i + 1)
             ELSE IF b >= 194 /\ b <= 223
                  THEN IsCont(at(1)) /\ Utf8From(s, i + 2)
             ELSE IF b = 224
                  THEN at(1) >= 160 /\ at(1) <= 191 /\ IsCont(at(2)) /\ Utf8From(s, i + 3)
             ELSE IF (b >= 225 /\ b <= 236) \/ b = 238 \/ b = 239
                  THEN IsCont(at(1)) /\ IsCont(at(2)) /\ Utf8From(s, i + 3)
             ELSE IF b = 237
                  THEN at(1) >= 128 /\ at(1) <= 159 /\ IsCont(at(2)) /\ Utf8From(s, i + 3)
             ELSE IF b = 240
                  THEN at(1) >= 144 /\ at(1) <= 191 /\ IsCont(at(2)) /\ IsCont(at(3))
                       /\ Utf8From(s, i + 4)
             ELSE IF b >= 241 /\ b <= 243
                  THEN IsCont(at(1)) /\ IsCont(at(2)) /\ IsCont(at(3)) /\ Utf8From(s, i + 4)
             ELSE IF b = 244
                  THEN at(1) >= 128 /\ at(1) <= 143 /\ IsCont(at(2)) /\ IsCont(at(3))
                       /\ Utf8From(s, i + 4)
             ELSE FALSE

from_utf8_ok(s) == Utf8From(s, 1)

----------------------------------------------------------------------------
(* Header maps: a sequence of <<name, value>> pairs in arrival order; the  *)
(* names are HeaderName values, which the http crate keeps lower-cased.    *)

CONNECTION == "connection"
UPGRADE == "upgrade"
SEC_WEBSOCKET_KEY == "sec-websocket-key"
SEC_WEBSOCKET_VERSION == "sec-websocket-version"
SEC_WEBSOCKET_PROTOCOL == "sec-websocket-protocol"
SEC_WEBSOCKET_ACCEPT == "sec-websocket-accept"

\* HeaderMap::get: the first value stored under the name, if any.
RECURSIVE HeaderGetFrom(_, _, _)
HeaderGetFrom(headers, key, i) ==
    IF i > Len(headers) THEN None
    ELSE IF headers[i][1] = key THEN Some(headers[i][2])
    ELSE HeaderGetFrom(headers, key, i + 1)

\* HeaderGet returning the value stored last under the name.
HeaderGet_Last(headers, key) ==
    LET at == { i \in 1 .. Len(headers) : headers[i][1] = key }
    IN  IF at = { } THEN None
        ELSE Some(headers[CHOOSE i \in at : \A j \in at : j <= i][2])

HeaderGet(headers, key) == HeaderGetFrom(headers, key, 1)

\* fn header_eq (lib.rs:228)
header_eq(headers, key, value) ==
    LET header == HeaderGet(headers, key)
    IN  IF IsSome(header)
        THEN eq_ignore_ascii_case(Unwrap(header), value)
        ELSE FALSE

\* header_contains looking at every value stored under the name.
header_contains_AnyValue(headers, key, value) ==
    \E i \in 1 .. Len(headers) :
        /\ headers[i][1] = key
        /\ from_utf8_ok(headers[i][2])
        /\ contains(to_ascii_lowercase(headers[i][2]), value)

\* header_contains decoding the value with from_utf8_lossy: a value that is
\* not UTF-8 is searched all the same.
header_contains_Lossy(headers, key, value) ==
    LET header == HeaderGet(headers, key)
    IN  IF ~IsSome(header) THEN FALSE
        ELSE contains(to_ascii_lowercase(Unwrap(header)), value)

\* fn header_contains (lib.rs:236)
header_contains(headers, key, value) ==
    LET header == HeaderGet(headers, key)
    IN  IF ~IsSome(header) THEN FALSE
        ELSE IF from_utf8_ok(Unwrap(header))
             THEN contains(to_ascii_lowercase(Unwrap(header)), value)
             ELSE FALSE

----------------------------------------------------------------------------
(* SHA-1 (sha1::Sha1) on byte strings.  A 32-bit word is a pair <<hi, lo>>  *)
(* of 16-bit halves, so that every intermediate value stays below 2^31.    *)

\* Bitwise AND of two naturals.
RECURSIVE BitAnd(_, _)
BitAnd(a, b) ==
    IF a = 0 \/ b = 0 THEN 0
    ELSE 2 * BitAnd(a \div 2, b \div 2) + (a % 2) * (b % 2)

BitXor(a, b) == a + b - 2 * BitAnd(a, b)
BitOr(a, b) == a + b - BitAnd(a, b)

And32(x, y) == << BitAnd(x[1], y[1]), BitAnd(x[2], y[2]) >>
Xor32(x, y) == << BitXor(x[1], y[1]), BitXor(x[2], y[2]) >>
Or32(x, y) == << BitOr(x[1], y[1]), BitOr(x[2], y[2]) >>
Not32(x) == << 65535 - x[1], 65535 - x[2] >>

\* u32::wrapping_add
Add32(x, y) ==
    LET lo == x[2] + y[2]
    IN  << (x[1] + y[1] + (lo \div 65536)) % 65536, lo % 65536 >>

\* u32::rotate_left, for 0 <= n < 32
Rotl32(x, n) ==
    LET hi == IF n >= 16 THEN x[2] ELSE x[1]
        lo == IF n >= 16 THEN x[1] ELSE x[2]
        up == 2 ^ (n % 16)
        down == 2 ^ (16 - (n % 16))
    IN  << ((hi * up) % 65536) + (lo \div down),
           ((lo * up) % 65536) + (hi \div down) >>

\* The message followed by 0x80, zero bytes up to 56 mod 64, and the bit
\* length as a 64-bit big-endian integer.
Sha1Pad(msg) ==
    LET n == Len(msg)
        zeros == (119 - (n % 64)) % 64
        bits == 8 * n
    IN  msg \o << 128 >> \o [i \in 1 .. zeros |-> 0]
            \o << 0, 0, 0, 0, (bits \div 16777216) % 256, (bits \div 65536) % 256,
                  (bits \div 256) % 256, bits % 256 >>

\* The 16 big-endian words of block number k (from 0) of the padded message.
Sha1Block(m, k) ==
    [i \in 1 .. 16 |->
        LET o == 64 * k + 4 * (i - 1)
        IN  << 256 * m[o + 1] + m[o + 2], 256 * m[o + 3] + m[o + 4] >>]

\* The message schedule: the 16 words extended to 80.
RECURSIVE Sha1Schedule(_)
Sha1Schedule(w) ==
    IF Len(w) >= 80 THEN w
    ELSE LET n == Len(w)
             x == Xor32(Xor32(w[n - 2], w[n - 7]), Xor32(w[n - 13], w[n - 15]))
         IN  Sha1Schedule(Append(w, Rotl32(x, 1)))

Sha1F(t, b, c, d) ==
    IF t < 20 THEN Or32(And32(b, c), And32(Not32(b), d))
    ELSE IF t < 40 THEN Xor32(Xor32(b, c), d)
    ELSE IF t < 60 THEN Or32(Or32(And32(b, c), And32(b, d)), And32(c, d))
    ELSE Xor32(Xor32(b, c), d)

Sha1K(t) ==
    IF t < 20 THEN << 23170, 31129 >>       \* 0x5A827999
    ELSE IF t < 40 THEN << 28377, 60321 >>  \* 0x6ED9EBA1
    ELSE IF t < 60 THEN << 36635, 48348 >>  \* 0x8F1BBCDC
    ELSE << 51810, 49622 >>                 \* 0xCA62C1D6

\* Round t (from 0) on the working variables s = <<a, b, c, d, e>>.
Sha1Round(s, w, t) ==
    LET temp == Add32(Add32(Add32(Rotl32(s[1], 5), Sha1F(t, s[2], s[3], s[4])),
                            Add32(s[5], Sha1K(t))), w[t + 1])
    IN  << temp, s[1], Rotl32(s[2], 30), s[3], s[4] >>

\* Rounds t .. 79.  (The test on s has TLC evaluate the working variables of
\* each round before it enters the next.)
RECURSIVE Sha1Rounds(_, _, _)
Sha1Rounds(s, w, t) ==
    IF Len(s) = 5 /\ t < 80
    THEN Sha1Rounds(Sha1Round(s, w, t), w, t + 1)
    ELSE s

\* The chaining value after blocks k .. of the padded message m, from h.
RECURSIVE Sha1Blocks(_, _, _)
Sha1Blocks(h, m, k) ==
    IF 64 * k >= Len(m) THEN h
    ELSE LET s == Sha1Rounds(h, Sha1Schedule(Sha1Block(m, k)), 0)
         IN  Sha1Blocks([i \in 1 .. 5 |-> Add32(h[i], s[i])], m, k + 1)

\* 0x67452301, 0xEFCDAB89, 0x98BADCFE, 0x10325476, 0xC3D2E1F0
Sha1Init == << <<26437, 8961>>, <<61389, 43913>>, <<39098, 56574>>,
               <<4146, 21622>>, <<50130, 57840>> >>

\* The 20-byte digest.
Sha1(msg) ==
    LET h == Sha1Blocks(Sha1Init, Sha1Pad(msg), 0)
    IN  [i \in 1 .. 20 |->
            LET wd == h[((i - 1) \div 4) + 1]
                half == IF ((i - 1) % 4) < 2 THEN wd[1] ELSE wd[2]
            IN  IF (i - 1) % 2 = 0 THEN half \div 256 ELSE half % 256]

----------------------------------------------------------------------------
(* base64::engine::general_purpose::STANDARD.encode *)

\* The ASCII code of the digit of value v (0..63) in the standard alphabet.
Base64Char(v) ==
    IF v < 26 THEN 65 + v
    ELSE IF v < 52 THEN 97 + (v - 26)
    ELSE IF v < 62 THEN 48 + (v - 52)
    ELSE IF v = 62 THEN 43
    ELSE 47

RECURSIVE Base64From(_, _)
Base64From(bytes, i) ==
    LET left == Len(bytes) - i + 1
    IN  IF left <= 0 THEN << >>
        ELSE IF left = 1
             THEN << Base64Char(bytes[i] \div 4), Base64Char((bytes[i] % 4) * 16), 61, 61 >>
        ELSE IF left = 2
             THEN << Base64Char(bytes[i] \div 4),
                     Base64Char((bytes[i] % 4) * 16 + (bytes[i + 1] \div 16)),
                     Base64Char((bytes[i + 1] % 16) * 4), 61 >>
        ELSE << Base64Char(bytes[i] \div 4),
                Base64Char((bytes[i] % 4) * 16 + (bytes[i + 1] \div 16)),
                Base64Char((bytes[i + 1] % 16) * 4 + (bytes[i + 2] \div 64)),
                Base64Char(bytes[i + 2] % 64) >> \o Base64From(bytes, i + 3)

Base64Encode(bytes) == Base64From(bytes, 1)

\* The accept token of a key, computed as fn sign computes it.
Sha1Base64(key) == Base64Encode(Sha1(key \o B_guid))

\* The lengths of the generated Sec-WebSocket-Key values: with the 36 bytes
\* of the GUID they fill one, two and three SHA-1 blocks, and lie on either
\* side of the lengths (55/56 and 119/120) at which the padding takes one
\* more block.
SignLens == << 0, 1, 2, 3, 18, 19, 20, 21, 27, 28, 29, 83, 84 >>

\* A header value of n bytes, of visible ASCII or (hi) of the opaque bytes
\* 128..255 that a HeaderValue may carry.
SignKey(n, hi) ==
    [i \in 1 .. n |-> IF hi THEN 128 + ((5 + 11 * i) % 128) ELSE 32 + ((3 + 7 * i) % 95)]

\* The keys that the requests of this model carry: the sample nonce, "abc"
\* and the generated ones; and their accept tokens, evaluated once.
GeneratedKeys ==
    [j \in 1 .. (2 * Len(SignLens)) |-> SignKey(SignLens[(j + 1) \div 2], j % 2 = 0)]

KnownKeys == << B_sample_nonce, B_abc >> \o GeneratedKeys

RECURSIVE AcceptsFrom(_)
AcceptsFrom(i) ==
    IF i > Len(KnownKeys) THEN << >>
    ELSE << Sha1Base64(KnownKeys[i]) >> \o AcceptsFrom(i + 1)

KnownAccepts == AcceptsFrom(1)

\* sign without the GUID appended to the key.
sign_NoGuid(key) == Base64Encode(Sha1(key))

\* sign with the engine STANDARD_NO_PAD: the token without its padding.
sign_NoPad(key) == SelectSeq(Sha1Base64(key), LAMBDA b : b # 61)

\* fn sign (lib.rs:250): base64(SHA-1(key ++ GUID)) as a header value.
sign(key) ==
    IF \E i \in 1 .. Len(KnownKeys) : KnownKeys[i] = key
    THEN KnownAccepts[CHOOSE i \in 1 .. Len(KnownKeys) : KnownKeys[i] = key]
    ELSE Sha1Base64(key)

----------------------------------------------------------------------------
(* Requests *)

\* http::Version, in the order of its derived PartialOrd.
HTTP_09 == 0
HTTP_10 == 1
HTTP_11 == 2
HTTP_2 == 3
HTTP_3 == 4

Versions == { HTTP_09, HTTP_10, HTTP_11, HTTP_2, HTTP_3 }
Methods == { "GET", "CONNECT", "POST" }

\* The values a request may carry under each header name, in arrival order.
ConnectionValues ==
    { << >>, << B_keepalive_Upgrade >>, << B_keepalive >>, << B_upgrade_ff >>,
      << B_upgrade_utf8 >>, << B_keepalive, B_upgrade >>, << B_upgrade, B_keepalive >> }
UpgradeValues == { << >>, << B_WebSocket >>, << B_websocket_h2c >> }
KeyValues == { << >>, << B_sample_nonce >>, << B_abc, B_sample_nonce >> }
VersionValues == { << >>, << B_13 >>, << B_12 >> }
SubprotocolValues == { << >>, << B_chat >> }

\* The values of hyper::ext::Protocol (the :protocol pseudo-header) in the
\* request's extensions.
ProtocolValues == { None, Some(B_websocket), Some(B_WebSocket) }

HeadersOf(name, values) == [i \in 1 .. Len(values) |-> << name, values[i] >>]

MkHeaders(c, u, k, v, s) ==
    HeadersOf(CONNECTION, c) \o HeadersOf(UPGRADE, u) \o HeadersOf(SEC_WEBSOCKET_KEY, k)
        \o HeadersOf(SEC_WEBSOCKET_VERSION, v) \o HeadersOf(SEC_WEBSOCKET_PROTOCOL, s)

\* Every request of the pools above on connection r; the extension slot
\* holds the connection's OnUpgrade future (named r) or nothing.
AllParts(r) ==
    { [version |-> ver, method |-> m, headers |-> MkHeaders(c, u, k, v, s),
       protocol |-> p, on_upgrade |-> o] :
        ver \in Versions, m \in Methods, c \in ConnectionValues, u \in UpgradeValues,
        k \in KeyValues, v \in VersionValues, s \in SubprotocolValues,
        p \in ProtocolValues, o \in { None, Some(r) } }

\* A few requests on connection r: a valid HTTP/1.1 upgrade, a valid HTTP/2
\* extended CONNECT, an HTTP/1.1 POST, and an HTTP/1.1 upgrade on a
\* connection without an OnUpgrade future.
SampleParts(r) ==
    { [version |-> HTTP_11, method |-> "GET",
       headers |-> MkHeaders(<< B_keepalive_Upgrade >>, << B_WebSocket >>,
                             << B_sample_nonce >>, << B_13 >>, << B_chat >>),
       protocol |-> None, on_upgrade |-> Some(r)],
      [version |-> HTTP_2, method |-> "CONNECT",
       headers |-> MkHeaders(<< >>, << >>, << B_abc >>, << B_13 >>, << >>),
       protocol |-> Some(B_websocket), on_upgrade |-> Some(r)],
      [version |-> HTTP_11, method |-> "POST",
       headers |-> MkHeaders(<< B_upgrade >>, << B_websocket >>,
                             << B_abc >>, << B_13 >>, << >>),
       protocol |-> None, on_upgrade |-> Some(r)],
      [version |-> HTTP_11, method |-> "GET",
       headers |-> MkHeaders(<< B_upgrade >>, << B_websocket >>,
                             << B_abc >>, << B_13 >>, << >>),
       protocol |-> None, on_upgrade |-> None] }

\* Requests on connection r in which each checked header occurs twice, with
\* a value that passes its check and one that does not (two different keys
\* for Sec-WebSocket-Key), in either order: HTTP/1.1 GET requests and HTTP/2
\* extended CONNECT requests.
MultiParts(r) ==
    { [version |-> ver, method |-> IF ver = HTTP_11 THEN "GET" ELSE "CONNECT",
       headers |-> MkHeaders(c, u, k, v, << >>),
       protocol |-> IF ver = HTTP_11 THEN None ELSE Some(B_websocket),
       on_upgrade |-> Some(r)] :
        ver \in { HTTP_11, HTTP_2 },
        c \in { << B_keepalive, B_upgrade >>, << B_upgrade, B_keepalive >> },
        u \in { << B_h2c, B_websocket >>, << B_websocket, B_h2c >> },
        k \in { << B_abc, B_sample_nonce >>, << B_sample_nonce, B_abc >> },
        v \in { << B_12, B_13 >>, << B_13, B_12 >> } }

\* The keys on which fn sign is exercised.
SignKeys == KnownKeys

\* A valid HTTP/1.1 upgrade request on connection r for each of these keys.
SignParts(r) ==
    { [version |-> HTTP_11, method |-> "GET",
       headers |-> MkHeaders(<< B_Upgrade >>, << B_websocket >>,
                             << SignKeys[j] >>, << B_13 >>, << >>),
       protocol |-> None, on_upgrade |-> Some(r)] : j \in DOMAIN SignKeys }

----------------------------------------------------------------------------
(* impl FromRequestParts for RawSocketUpgrade (lib.rs:146) *)

Err(rejection, p) ==
    [tag |-> "Err", rejection |-> rejection, sec_websocket_key |-> None,
     on_upgrade |-> None, sec_websocket_protocol |-> None, parts |-> p]

Ok(key, on_upgrade, protocol, p) ==
    [tag |-> "Ok", rejection |-> "-", sec_websocket_key |-> key,
     on_upgrade |-> on_upgrade, sec_websocket_protocol |-> protocol, parts |-> p]

\* VersionChecks with the Upgrade check ahead of the Connection check.
VersionChecks_UpgradeFirst(p, feature_http2) ==
    IF p.version <= HTTP_11
    THEN IF p.method # "GET" THEN Err("MethodNotGet", p)
         ELSE IF ~header_eq(p.headers, UPGRADE, B_websocket)
              THEN Err("InvalidUpgradeHeader", p)
         ELSE IF ~header_contains(p.headers, CONNECTION, B_upgrade)
              THEN Err("InvalidConnectionHeader", p)
         ELSE IF ~IsSome(HeaderGet(p.headers, SEC_WEBSOCKET_KEY))
              THEN Err("WebSocketKeyHeaderMissing", p)
         ELSE Ok(HeaderGet(p.headers, SEC_WEBSOCKET_KEY), None, None, p)
    ELSE IF p.method # "CONNECT" THEN Err("MethodNotConnect", p)
         ELSE IF feature_http2 /\ (~IsSome(p.protocol) \/ Unwrap(p.protocol) # B_websocket)
              THEN Err("InvalidProtocolPseudoheader", p)
         ELSE Ok(None, None, None, p)

\* VersionChecks with the :protocol check compiled in whatever the feature.
VersionChecks_AlwaysProtocol(p, feature_http2) ==
    IF p.version <= HTTP_11
    THEN IF p.method # "GET" THEN Err("MethodNotGet", p)
         ELSE IF ~header_contains(p.headers, CONNECTION, B_upgrade)
              THEN Err("InvalidConnectionHeader", p)
         ELSE IF ~header_eq(p.headers, UPGRADE, B_websocket)
              THEN Err("InvalidUpgradeHeader", p)
         ELSE IF ~IsSome(HeaderGet(p.headers, SEC_WEBSOCKET_KEY))
              THEN Err("WebSocketKeyHeaderMissing", p)
         ELSE Ok(HeaderGet(p.headers, SEC_WEBSOCKET_KEY), None, None, p)
    ELSE IF p.method # "CONNECT" THEN Err("MethodNotConnect", p)
         ELSE IF ~IsSome(p.protocol) \/ Unwrap(p.protocol) # B_websocket
              THEN Err("InvalidProtocolPseudoheader", p)
         ELSE Ok(None, None, None, p)

\* VersionChecks capturing the Sec-WebSocket-Key header in the HTTP/2+ branch
\* as well.
VersionChecks_KeyInBoth(p, feature_http2) ==
    IF p.version <= HTTP_11
    THEN IF p.method # "GET" THEN Err("MethodNotGet", p)
         ELSE IF ~header_contains(p.headers, CONNECTION, B_upgrade)
              THEN Err("InvalidConnectionHeader", p)
         ELSE IF ~header_eq(p.headers, UPGRADE, B_websocket)
              THEN Err("InvalidUpgradeHeader", p)
         ELSE IF ~IsSome(HeaderGet(p.headers, SEC_WEBSOCKET_KEY))
              THEN Err("WebSocketKeyHeaderMissing", p)
         ELSE Ok(HeaderGet(p.headers, SEC_WEBSOCKET_KEY), None, None, p)
    ELSE IF p.method # "CONNECT" THEN Err("MethodNotConnect", p)
         ELSE IF feature_http2 /\ (~IsSome(p.protocol) \/ Unwrap(p.protocol) # B_websocket)
              THEN Err("InvalidProtocolPseudoheader", p)
         ELSE Ok(HeaderGet(p.headers, SEC_WEBSOCKET_KEY), None, None, p)

\* lib.rs:153-202: the checks of the version branch; the key on success.
VersionChecks(p, feature_http2) ==
    IF p.version <= HTTP_11
    THEN IF p.method # "GET" THEN Err("MethodNotGet", p)
         ELSE IF ~header_contains(p.headers, CONNECTION, B_upgrade)
              THEN Err("InvalidConnectionHeader", p)
         ELSE IF ~header_eq(p.headers, UPGRADE, B_websocket)
              THEN Err("InvalidUpgradeHeader", p)
         ELSE IF ~IsSome(HeaderGet(p.headers, SEC_WEBSOCKET_KEY))
              THEN Err("WebSocketKeyHeaderMissing", p)
         ELSE Ok(HeaderGet(p.headers, SEC_WEBSOCKET_KEY), None, None, p)
    ELSE IF p.method # "CONNECT" THEN Err("MethodNotConnect", p)
         ELSE IF feature_http2 /\ (~IsSome(p.protocol) \/ Unwrap(p.protocol) # B_websocket)
              THEN Err("InvalidProtocolPseudoheader", p)
         ELSE Ok(None, None, None, p)

\* from_request_parts taking the OnUpgrade future before it checks the
\* Sec-WebSocket-Version header.
from_request_parts_SlotFirst(p, feature_http2) ==
    LET branch == VersionChecks(p, feature_http2)
    IN  IF branch.tag = "Err" THEN branch
        ELSE IF ~IsSome(p.on_upgrade)
             THEN Err("ConnectionNotUpgradable", p)
        ELSE IF ~header_eq(p.headers, SEC_WEBSOCKET_VERSION, B_13)
             THEN Err("InvalidWebSocketVersionHeader", p)
        ELSE Ok(branch.sec_websocket_key, p.on_upgrade,
                HeaderGet(p.headers, SEC_WEBSOCKET_PROTOCOL),
                [p EXCEPT !.on_upgrade = None])

\* from_request_parts reading the OnUpgrade future (extensions.get) and
\* leaving it in the request's extensions.
from_request_parts_KeepsSlot(p, feature_http2) ==
    LET branch == VersionChecks(p, feature_http2)
    IN  IF branch.tag = "Err" THEN branch
        ELSE IF ~header_eq(p.headers, SEC_WEBSOCKET_VERSION, B_13)
             THEN Err("InvalidWebSocketVersionHeader", p)
        ELSE IF ~IsSome(p.on_upgrade)
             THEN Err("ConnectionNotUpgradable", p)
        ELSE Ok(branch.sec_websocket_key, p.on_upgrade,
                HeaderGet(p.headers, SEC_WEBSOCKET_PROTOCOL), p)

\* from_request_parts taking the OnUpgrade future out of the extensions
\* before it makes its checks.
from_request_parts_TakesEarly(p, feature_http2) ==
    LET branch == VersionChecks(p, feature_http2)
        taken == [p EXCEPT !.on_upgrade = None]
    IN  IF branch.tag = "Err" THEN Err(branch.rejection, taken)
        ELSE IF ~header_eq(p.headers, SEC_WEBSOCKET_VERSION, B_13)
             THEN Err("InvalidWebSocketVersionHeader", taken)
        ELSE IF ~IsSome(p.on_upgrade)
             THEN Err("ConnectionNotUpgradable", taken)
        ELSE Ok(branch.sec_websocket_key, p.on_upgrade,
                HeaderGet(p.headers, SEC_WEBSOCKET_PROTOCOL), taken)

\* lib.rs:152-225: the result, and the request parts as the call leaves them.
from_request_parts(p, feature_http2) ==
    LET branch == VersionChecks(p, feature_http2)
    IN  IF branch.tag = "Err" THEN branch
        ELSE IF ~header_eq(p.headers, SEC_WEBSOCKET_VERSION, B_13)
             THEN Err("InvalidWebSocketVersionHeader", p)
        ELSE IF ~IsSome(p.on_upgrade)
             THEN Err("ConnectionNotUpgradable", p)
        ELSE Ok(branch.sec_websocket_key, p.on_upgrade,
                HeaderGet(p.headers, SEC_WEBSOCKET_PROTOCOL),
                [p EXCEPT !.on_upgrade = None])

----------------------------------------------------------------------------
(* The state machine *)

\* http::StatusCode
SWITCHING_PROTOCOLS == 101
STATUS_OK == 200

\* The failure callbacks: the default one and those a caller may install.
DefaultOnFailedUpgrade == "DefaultOnFailedUpgrade"
Callbacks == { "logError", "countError" }

\* The errors with which hyper may fail an upgrade.
Errors == { "Canceled", "Closed" }

Pending == [state |-> "Pending", err |-> "-"]
Resolved == [state |-> "Ok", err |-> "-"]
Failed(e) == [state |-> "Err", err |-> e]
NoTransport == [state |-> "Absent", err |-> "-"]

NotCalled(p) == [tag |-> "NotCalled", rejection |-> "-", ctx |-> 0, given |-> p]

\* The state once the server has parsed the requests in ps (a function from
\* connections to request parts) and nothing else has happened.
InitWith(ps) ==
    /\ parts = ps
    /\ transport = [r \in DOMAIN ps |->
                        IF IsSome(ps[r].on_upgrade) THEN Pending ELSE NoTransport]
    /\ result = [r \in DOMAIN ps |-> NotCalled(ps[r])]
    /\ ctxs = << >>
    /\ tasks = << >>
    /\ responses = << >>
    /\ calls = << >>

\* One handshake, on any request of the pools.
Init ==
    /\ http2 \in BOOLEAN
    /\ \E p \in AllParts(1) : InitWith([r \in { 1 } |-> p])

\* Two concurrent handshakes, on connections 1 and 2, each on a sample.
InitPair ==
    /\ http2 \in BOOLEAN
    /\ \E p \in SampleParts(1), q \in SampleParts(2) :
          InitWith([r \in { 1, 2 } |-> IF r = 1 THEN p ELSE q])

\* from_request_parts(&mut parts[r], _) is called and returns (lib.rs:152).
Validate(r) ==
    /\ Len(ctxs) < MaxCtxs
    /\ LET res == from_request_parts(parts[r], http2)
       IN  /\ parts' = [parts EXCEPT ![r] = res.parts]
           /\ IF res.tag = "Ok"
              THEN /\ ctxs' = Append(ctxs,
                        [sec_websocket_key |-> res.sec_websocket_key,
                         on_upgrade |-> Unwrap(res.on_upgrade),
                         on_failed_upgrade |-> DefaultOnFailedUpgrade,
                         sec_websocket_protocol |-> res.sec_websocket_protocol,
                         req |-> r, replaced |-> 0, consumed |-> FALSE])
                   /\ result' = [result EXCEPT ![r] =
                        [tag |-> "Ok", rejection |-> "-", ctx |-> Len(ctxs) + 1,
                         given |-> parts[r]]]
              ELSE /\ ctxs' = ctxs
                   /\ result' = [result EXCEPT ![r] =
                        [tag |-> "Err", rejection |-> res.rejection, ctx |-> 0,
                         given |-> parts[r]]]
    /\ UNCHANGED << http2, transport, tasks, responses, calls >>

\* WithFailedUpgrade leaving out the captured Sec-WebSocket-Protocol value.
WithFailedUpgrade_DropsProtocol(c, callback) ==
    [sec_websocket_key |-> c.sec_websocket_key,
     on_upgrade |-> c.on_upgrade,
     on_failed_upgrade |-> callback,
     sec_websocket_protocol |-> None,
     req |-> c.req, replaced |-> c.replaced + 1, consumed |-> c.consumed]

\* RawSocketUpgrade::on_failed_upgrade(self, callback) (lib.rs:55): the
\* context is moved into one that differs in the failure callback.
WithFailedUpgrade(c, callback) ==
    [sec_websocket_key |-> c.sec_websocket_key,
     on_upgrade |-> c.on_upgrade,
     on_failed_upgrade |-> callback,
     sec_websocket_protocol |-> c.sec_websocket_protocol,
     req |-> c.req, replaced |-> c.replaced + 1, consumed |-> c.consumed]

\* on_failed_upgrade spawning the task for the context it returns.
on_failed_upgrade_Spawns(i, callback) ==
    /\ ~ctxs[i].consumed
    /\ ctxs[i].replaced < MaxReplace
    /\ ctxs' = [ctxs EXCEPT ![i] = WithFailedUpgrade(ctxs[i], callback)]
    /\ tasks' = Append(tasks, [ctx |-> i, on_upgrade |-> ctxs[i].on_upgrade,
                               on_failed_upgrade |-> callback, pc |-> "await"])
    /\ UNCHANGED << http2, parts, transport, result, responses, calls >>

on_failed_upgrade(i, callback) ==
    /\ ~ctxs[i].consumed
    /\ ctxs[i].replaced < MaxReplace
    /\ ctxs' = [ctxs EXCEPT ![i] = WithFailedUpgrade(ctxs[i], callback)]
    /\ UNCHANGED << http2, parts, transport, result, tasks, responses, calls >>

\* ResponseOf answering 101 Switching Protocols on the HTTP/2+ path too.
ResponseOf_Always101(c) ==
    [status |-> SWITCHING_PROTOCOLS,
     headers |-> << << CONNECTION, B_upgrade >>, << UPGRADE, B_websocket >> >>
                 \o (IF IsSome(c.sec_websocket_key)
                     THEN << << SEC_WEBSOCKET_ACCEPT, sign(Unwrap(c.sec_websocket_key)) >> >>
                     ELSE << >>),
     body |-> << >>]

\* ResponseOf answering with the captured Sec-WebSocket-Protocol value as a
\* header of the response.
ResponseOf_EchoesProtocol(c) ==
    IF IsSome(c.sec_websocket_key)
    THEN [status |-> SWITCHING_PROTOCOLS,
          headers |-> << << CONNECTION, B_upgrade >>,
                         << UPGRADE, B_websocket >>,
                         << SEC_WEBSOCKET_ACCEPT, sign(Unwrap(c.sec_websocket_key)) >> >>
                      \o (IF IsSome(c.sec_websocket_protocol)
                          THEN << << SEC_WEBSOCKET_PROTOCOL, Unwrap(c.sec_websocket_protocol) >> >>
                          ELSE << >>),
          body |-> << >>]
    ELSE [status |-> STATUS_OK, headers |-> << >>, body |-> << >>]

\* lib.rs:91-113: the response on_upgrade returns for a context.
ResponseOf(c) ==
    IF IsSome(c.sec_websocket_key)
    THEN [status |-> SWITCHING_PROTOCOLS,
          headers |-> << << CONNECTION, B_upgrade >>,
                         << UPGRADE, B_websocket >>,
                         << SEC_WEBSOCKET_ACCEPT, sign(Unwrap(c.sec_websocket_key)) >> >>,
          body |-> << >>]
    ELSE [status |-> STATUS_OK, headers |-> << >>, body |-> << >>]

\* SpawnedTask awaiting the OnUpgrade future of the context created first,
\* as if the pending transport were kept in a place all handshakes share.
SpawnedTask_FirstTransport(i, c) ==
    [ctx |-> i, on_upgrade |-> ctxs[1].on_upgrade,
     on_failed_upgrade |-> c.on_failed_upgrade, pc |-> "await"]

\* lib.rs:76-89: the task on_upgrade spawns for a context, about to await
\* the context's OnUpgrade future.
SpawnedTask(i, c) ==
    [ctx |-> i, on_upgrade |-> c.on_upgrade, on_failed_upgrade |-> c.on_failed_upgrade,
     pc |-> "await"]

\* on_upgrade awaiting the OnUpgrade future itself before it returns the
\* response.
on_upgrade_AwaitsFirst(i) ==
    /\ ~ctxs[i].consumed
    /\ transport[ctxs[i].on_upgrade] # Pending
    /\ ctxs' = [ctxs EXCEPT ![i].consumed = TRUE]
    /\ tasks' = Append(tasks, SpawnedTask(i, ctxs[i]))
    /\ responses' = Append(responses, [ctx |-> i, response |-> ResponseOf(ctxs[i])])
    /\ UNCHANGED << http2, parts, transport, result, calls >>

\* RawSocketUpgrade::on_upgrade(self, callback) (lib.rs:70): consumes the
\* context, spawns the task and returns the response.
on_upgrade(i) ==
    /\ ~ctxs[i].consumed
    /\ ctxs' = [ctxs EXCEPT ![i].consumed = TRUE]
    /\ tasks' = Append(tasks, SpawnedTask(i, ctxs[i]))
    /\ responses' = Append(responses, [ctx |-> i, response |-> ResponseOf(ctxs[i])])
    /\ UNCHANGED << http2, parts, transport, result, calls >>

\* The OnUpgrade future of connection t has been taken out of the request's
\* extensions.  (Nothing can observe the future before that, so a resolution
\* before it is taken is modelled as one right after.)
Taken(t) == \E i \in DOMAIN ctxs : ctxs[i].on_upgrade = t

\* hyper completes the protocol switch of connection t: its OnUpgrade future
\* resolves to the upgraded connection.
UpgradeSucceeds(t) ==
    /\ transport[t] = Pending
    /\ Taken(t)
    /\ transport' = [transport EXCEPT ![t] = Resolved]
    /\ UNCHANGED << http2, parts, result, ctxs, tasks, responses, calls >>

\* hyper gives up the protocol switch of connection t: its OnUpgrade future
\* resolves to an error.
UpgradeFails(t, e) ==
    /\ transport[t] = Pending
    /\ Taken(t)
    /\ transport' = [transport EXCEPT ![t] = Failed(e)]
    /\ UNCHANGED << http2, parts, result, ctxs, tasks, responses, calls >>

\* TaskOutcome without the return after on_failed_upgrade.call: the task
\* goes on to the callback.
TaskOutcome_NoReturn(k, task, outcome) ==
    IF outcome.state = "Ok"
    THEN [calls |-> << [kind |-> "callback", task |-> k, by |-> "callback",
                        with |-> << "TokioIo", task.on_upgrade >>] >>,
          pc |-> "callback"]
    ELSE [calls |-> << [kind |-> "on_failed_upgrade", task |-> k,
                        by |-> task.on_failed_upgrade,
                        with |-> << "Error", outcome.err >>],
                       [kind |-> "callback", task |-> k, by |-> "callback",
                        with |-> << "TokioIo", task.on_upgrade >>] >>,
          pc |-> "callback"]

\* lib.rs:80-88: what the task does with the outcome of on_upgrade.await:
\* the invocations it makes and where it continues.
TaskOutcome(k, task, outcome) ==
    IF outcome.state = "Ok"
    THEN [calls |-> << [kind |-> "callback", task |-> k, by |-> "callback",
                        with |-> << "TokioIo", task.on_upgrade >>] >>,
          pc |-> "callback"]
    ELSE [calls |-> << [kind |-> "on_failed_upgrade", task |-> k,
                        by |-> task.on_failed_upgrade,
                        with |-> << "Error", outcome.err >>] >>,
          pc |-> "done"]

\* TaskResume with a timeout on on_upgrade.await: the task may give up on a
\* future that has not resolved and treat it as failed.
TaskResume_TimesOut(k) ==
    /\ tasks[k].pc = "await"
    /\ LET out == TaskOutcome(k, tasks[k],
                              IF transport[tasks[k].on_upgrade] = Pending
                              THEN Failed("Elapsed")
                              ELSE transport[tasks[k].on_upgrade])
       IN  /\ calls' = calls \o out.calls
           /\ tasks' = [tasks EXCEPT ![k].pc = out.pc]
    /\ UNCHANGED << http2, parts, transport, result, ctxs, responses >>

\* The task resumes from on_upgrade.await once the future has resolved.
TaskResume(k) ==
    /\ tasks[k].pc = "await"
    /\ transport[tasks[k].on_upgrade].state \in { "Ok", "Err" }
    /\ LET out == TaskOutcome(k, tasks[k], transport[tasks[k].on_upgrade])
       IN  /\ calls' = calls \o out.calls
           /\ tasks' = [tasks EXCEPT ![k].pc = out.pc]
    /\ UNCHANGED << http2, parts, transport, result, ctxs, responses >>

\* lib.rs:88: the future returned by the callback completes; the task ends.
CallbackReturns(k) ==
    /\ tasks[k].pc = "callback"
    /\ tasks' = [tasks EXCEPT ![k].pc = "done"]
    /\ UNCHANGED << http2, parts, transport, result, ctxs, responses, calls >>

Next ==
    \/ \E r \in DOMAIN parts : Validate(r)
    \/ \E i \in DOMAIN ctxs, cb \in Callbacks : on_failed_upgrade(i, cb)
    \/ \E i \in DOMAIN ctxs : on_upgrade(i)
    \/ \E t \in DOMAIN transport : UpgradeSucceeds(t)
    \/ \E t \in DOMAIN transport, e \in Errors : UpgradeFails(t, e)
    \/ \E k \in DOMAIN tasks : TaskResume(k)
    \/ \E k \in DOMAIN tasks : CallbackReturns(k)

Spec == Init /\ [][Next]_vars

SpecPair == InitPair /\ [][Next]_vars

\* One handshake on a valid HTTP/1.1 request, over the keys of SignKeys.
InitSign ==
    /\ http2 \in BOOLEAN
    /\ \E p \in SignParts(1) : InitWith([r \in { 1 } |-> p])

SpecSign == InitSign /\ [][Next]_vars

\* One handshake on a request with repeated headers.
InitMulti ==
    /\ http2 \in BOOLEAN
    /\ \E p \in MultiParts(1) : InitWith([r \in { 1 } |-> p])

SpecMulti == InitMulti /\ [][Next]_vars

\* One handshake on a sample request.
InitSample ==
    /\ http2 \in BOOLEAN
    /\ \E p \in SampleParts(1) : InitWith([r \in { 1 } |-> p])

\* The scheduling of the spawned tasks (tokio::spawn, lib.rs:79): a task
\* whose awaited future has resolved is eventually polled.  Nothing is
\* assumed of hyper (the transport may stay pending for ever), of the handler
\* (on_upgrade may never be called) or of the callback's future (it may never
\* complete).
TaskFairness == \A k \in 1 .. MaxCtxs : WF_vars(k \in DOMAIN tasks /\ TaskResume(k))

SpecFair == InitSample /\ [][Next]_vars /\ TaskFairness

----------------------------------------------------------------------------
(* Properties.  The requirements on a request are stated here on their own, *)
(* from the request as it was given to the validator (result[r].given),    *)
(* and compared with what the validator returned.                          *)

Called(r) == result[r].tag # "NotCalled"

\* The first value of a header, as an Option.
FirstValue(p, name) ==
    IF \E i \in 1 .. Len(p.headers) : p.headers[i][1] = name
    THEN Some(p.headers[CHOOSE i \in 1 .. Len(p.headers) :
                            /\ p.headers[i][1] = name
                            /\ \A j \in 1 .. (i - 1) : p.headers[j][1] # name][2])
    ELSE None

\* The byte b with an ASCII capital letter replaced by its small letter.
Lower(b) == IF b \in 65 .. 90 THEN b + 32 ELSE b

\* v holds the text "upgrade", in any letter case, at some position.
HoldsUpgrade(v) ==
    \E i \in 1 .. Len(v) :
        /\ i + Len(B_upgrade) - 1 <= Len(v)
        /\ \A j \in 1 .. Len(B_upgrade) : Lower(v[i + j - 1]) = B_upgrade[j]

\* The requirements of section 4.1, one predicate each.
MethodIsGet(p) == p.method = "GET"
MethodIsConnect(p) == p.method = "CONNECT"
ConnectionOk(p) == header_contains(p.headers, CONNECTION, B_upgrade)
UpgradeOk(p) == header_eq(p.headers, UPGRADE, B_websocket)
KeyPresent(p) == \E i \in 1 .. Len(p.headers) : p.headers[i][1] = SEC_WEBSOCKET_KEY
ProtocolOk(p) == p.protocol = Some(B_websocket)
VersionIs13(p) == FirstValue(p, SEC_WEBSOCKET_VERSION) = Some(B_13)
TransportPresent(p) == p.on_upgrade # None

\* The requirements on request p in their documented order, each with the
\* rejection of its failure.
Requirements(p) ==
    IF p.version \in { HTTP_09, HTTP_10, HTTP_11 }
    THEN << << "MethodNotGet", MethodIsGet(p) >>,
            << "InvalidConnectionHeader", ConnectionOk(p) >>,
            << "InvalidUpgradeHeader", UpgradeOk(p) >>,
            << "WebSocketKeyHeaderMissing", KeyPresent(p) >>,
            << "InvalidWebSocketVersionHeader", VersionIs13(p) >>,
            << "ConnectionNotUpgradable", TransportPresent(p) >> >>
    ELSE << << "MethodNotConnect", MethodIsConnect(p) >>,
            << "InvalidProtocolPseudoheader", http2 => ProtocolOk(p) >>,
            << "InvalidWebSocketVersionHeader", VersionIs13(p) >>,
            << "ConnectionNotUpgradable", TransportPresent(p) >> >>

\* The rejection of the earliest requirement that fails, "-" if none does.
FirstFailure(reqs) ==
    IF \E i \in 1 .. Len(reqs) : ~reqs[i][2]
    THEN reqs[CHOOSE i \in 1 .. Len(reqs) :
                 /\ ~reqs[i][2]
                 /\ \A j \in 1 .. (i - 1) : reqs[j][2]][1]
    ELSE "-"

\* The number of requirements that fail.
Failures(reqs) == Cardinality({ i \in 1 .. Len(reqs) : ~reqs[i][2] })

\* C3: the validator returns the rejection of the first requirement that
\* fails, in the documented order of the request's version branch, and
\* succeeds when none fails; in particular a request of version <= HTTP/1.1
\* with a method other than GET gets MethodNotGet whatever else it carries.
C3_FirstFailingCheck ==
    \A r \in DOMAIN result :
        Called(r) =>
            /\ result[r].rejection = FirstFailure(Requirements(result[r].given))
            /\ (result[r].tag = "Ok") = (result[r].rejection = "-")
            /\ (result[r].given.version <= HTTP_11 /\ result[r].given.method # "GET")
                   => result[r].rejection = "MethodNotGet"

\* C3 witness: a request that fails the Connection check and at least two
\* later checks has been rejected with InvalidConnectionHeader.
C3_Witness ==
    \E r \in DOMAIN result :
        /\ result[r].rejection = "InvalidConnectionHeader"
        /\ ~UpgradeOk(result[r].given)
        /\ Failures(Requirements(result[r].given)) >= 3

\* C4 as stated: every request whose Sec-WebSocket-Version is missing or not
\* 13 is rejected with InvalidWebSocketVersionHeader.
C4_AsStated ==
    \A r \in DOMAIN result :
        (Called(r) /\ ~VersionIs13(result[r].given))
            => result[r].rejection = "InvalidWebSocketVersionHeader"

\* The version-specific requirements of the request's branch all hold.
BranchOk(p) ==
    IF p.version \in { HTTP_09, HTTP_10, HTTP_11 }
    THEN MethodIsGet(p) /\ ConnectionOk(p) /\ UpgradeOk(p) /\ KeyPresent(p)
    ELSE MethodIsConnect(p) /\ (http2 => ProtocolOk(p))

\* C4 (amended): every request, in either version branch, that meets the
\* version-specific requirements of its branch and whose Sec-WebSocket-Version
\* is missing or not 13 is rejected with InvalidWebSocketVersionHeader,
\* whether or not it carries a pending transport.
C4_VersionAfterBranch ==
    \A r \in DOMAIN result :
        (Called(r) /\ BranchOk(result[r].given) /\ ~VersionIs13(result[r].given))
            => result[r].rejection = "InvalidWebSocketVersionHeader"

\* C4 witness: an HTTP/2+ request without Sec-WebSocket-Version and without
\* a pending transport has been rejected with InvalidWebSocketVersionHeader.
C4_Witness ==
    \E r \in DOMAIN result :
        /\ result[r].rejection = "InvalidWebSocketVersionHeader"
        /\ result[r].given.version >= HTTP_2
        /\ FirstValue(result[r].given, SEC_WEBSOCKET_VERSION) = None
        /\ ~TransportPresent(result[r].given)

\* The Connection header of p is missing, or its (first) value does not hold
\* "upgrade" in any letter case.
ConnectionLacksUpgrade(p) ==
    LET v == FirstValue(p, CONNECTION)
    IN  v = None \/ ~HoldsUpgrade(Unwrap(v))

\* C5 as stated: every request of version <= HTTP/1.1 whose Connection header
\* is missing or lacks "upgrade" is rejected with InvalidConnectionHeader.
C5_AsStated ==
    \A r \in DOMAIN result :
        (Called(r) /\ result[r].given.version <= HTTP_11
                   /\ ConnectionLacksUpgrade(result[r].given))
            => result[r].rejection = "InvalidConnectionHeader"

\* C5 (amended): every GET request of version <= HTTP/1.1 whose Connection
\* header is missing or whose (first) value lacks "upgrade", compared without
\* regard to letter case, is rejected with InvalidConnectionHeader.
C5_ConnectionOfGet ==
    \A r \in DOMAIN result :
        (Called(r) /\ result[r].given.version <= HTTP_11
                   /\ result[r].given.method = "GET"
                   /\ ConnectionLacksUpgrade(result[r].given))
            => result[r].rejection = "InvalidConnectionHeader"

\* C5 witness: a GET request of version HTTP/1.1 whose first Connection value
\* is "keep-alive" has been rejected with InvalidConnectionHeader.
C5_Witness ==
    \E r \in DOMAIN result :
        /\ result[r].rejection = "InvalidConnectionHeader"
        /\ result[r].given.version = HTTP_11
        /\ FirstValue(result[r].given, CONNECTION) = Some(B_keepalive)

\* The outcome that the Sec-WebSocket-Version header and the pending
\* transport alone decide.
CommonOutcome(p) ==
    IF ~VersionIs13(p) THEN "InvalidWebSocketVersionHeader"
    ELSE IF ~TransportPresent(p) THEN "ConnectionNotUpgradable"
    ELSE "-"

\* C6: an HTTP/2+ CONNECT request whose :protocol is missing or is not
\* "websocket" is rejected with InvalidProtocolPseudoheader when feature
\* http2 is enabled; when it is disabled the outcome is what the version
\* header and the pending transport decide.
C6_ProtocolPseudoheader ==
    \A r \in DOMAIN result :
        (Called(r) /\ result[r].given.version >= HTTP_2
                   /\ result[r].given.method = "CONNECT"
                   /\ ~ProtocolOk(result[r].given))
            => IF http2
               THEN result[r].rejection = "InvalidProtocolPseudoheader"
               ELSE /\ result[r].rejection = CommonOutcome(result[r].given)
                    /\ (result[r].tag = "Ok") = (result[r].rejection = "-")

\* C6 witness: with the feature disabled, an HTTP/2 CONNECT request without
\* :protocol has been accepted.
C6_Witness ==
    \E r \in DOMAIN result :
        /\ ~http2
        /\ result[r].tag = "Ok"
        /\ result[r].given.version = HTTP_2
        /\ result[r].given.protocol = None

\* The invocations that task k has made, in order.
CallsOf(k) == SelectSeq(calls, LAMBDA c : c.task = k)

\* C1: once on_upgrade has been called on a context, its task invokes
\* nothing before the pending transport resolves; when the transport has
\* failed it invokes the context's failure callback once, with the error of
\* the failure, and never the callback; when it has succeeded it invokes the
\* callback once, with the upgraded connection of the context, and never the
\* failure callback.  No task makes more than one invocation.
C1_ExactlyOneOutcome ==
    /\ \A n \in DOMAIN calls : calls[n].task \in DOMAIN tasks
    /\ \A k \in DOMAIN tasks :
        LET c == ctxs[tasks[k].ctx]
            tr == transport[c.on_upgrade]
        IN  /\ Len(CallsOf(k)) <= 1
            /\ tr = Pending => tasks[k].pc = "await"
            /\ tasks[k].pc = "await" => CallsOf(k) = << >>
            /\ (tasks[k].pc # "await" /\ tr.state = "Err") =>
                  /\ tasks[k].pc = "done"
                  /\ CallsOf(k) = << [kind |-> "on_failed_upgrade", task |-> k,
                                      by |-> c.on_failed_upgrade,
                                      with |-> << "Error", tr.err >>] >>
            /\ (tasks[k].pc # "await" /\ tr.state = "Ok") =>
                  CallsOf(k) = << [kind |-> "callback", task |-> k, by |-> "callback",
                                   with |-> << "TokioIo", c.on_upgrade >>] >>

\* C1 witness: a task has ended after its transport failed, having invoked a
\* failure callback installed by on_failed_upgrade.
C1_Witness ==
    \E k \in DOMAIN tasks :
        /\ tasks[k].pc = "done"
        /\ transport[tasks[k].on_upgrade].state = "Err"
        /\ \E n \in DOMAIN calls :
              calls[n].task = k /\ calls[n].by \in Callbacks

\* "s3pPLMBiTxaQ9kYGzzhZRbK+xOo=": the accept token of the sample nonce
\* (RFC 6455, section 1.3).
B_accept_sample_nonce == <<115,51,112,80,76,77,66,105,84,120,97,81,57,107,89,71,122,122,104,90,82,98,75,43,120,79,111,61>>
\* "zwKd5BnoWxQ6GxTxxSmBSHGHX9M=": the accept token of "abc".
B_accept_abc == <<122,119,75,100,53,66,110,111,87,120,81,54,71,120,84,120,120,83,109,66,83,72,71,72,88,57,77,61>>

\* The accept token of key k, from the reference values above.
AcceptToken(k) ==
    IF k = B_sample_nonce THEN B_accept_sample_nonce
    ELSE IF k = B_abc THEN B_accept_abc
    ELSE << >>

\* The headers of a response, as a set of <<name, value>> pairs.
HeaderSet(response) == { response.headers[i] : i \in DOMAIN response.headers }

\* The request from which context number i was made, as the server parsed it.
RequestOf(i) == parts[ctxs[i].req]

C7_KeyIffHttp1 ==
    \A i \in DOMAIN ctxs :
        (ctxs[i].sec_websocket_key # None)
            = (RequestOf(i).version \in { HTTP_09, HTTP_10, HTTP_11 })

\* C7 witness: a context of an HTTP/2+ request that carries a
\* Sec-WebSocket-Key header has no key, after a replacement of its failure
\* callback.
C7_Witness ==
    \E i \in DOMAIN ctxs :
        /\ RequestOf(i).version >= HTTP_2
        /\ KeyPresent(RequestOf(i))
        /\ ctxs[i].on_failed_upgrade \in Callbacks
        /\ ctxs[i].sec_websocket_key = None

\* C8: a successful validation takes the pending transport out of the
\* request's extensions and puts it into the context it returns; validating
\* the same request again returns ConnectionNotUpgradable; no two contexts
\* hold the same pending transport.
C8_SingleOwner ==
    /\ \A i, j \in DOMAIN ctxs : ctxs[i].on_upgrade = ctxs[j].on_upgrade => i = j
    /\ \A i \in DOMAIN ctxs : parts[ctxs[i].req].on_upgrade = None
    /\ \A r \in DOMAIN result :
        /\ result[r].tag = "Ok" =>
              /\ parts[r].on_upgrade = None
              /\ Some(ctxs[result[r].ctx].on_upgrade) = result[r].given.on_upgrade
        /\ (Called(r) /\ \E i \in DOMAIN ctxs : ctxs[i].req = r /\ result[r].ctx # i)
              => result[r].rejection = "ConnectionNotUpgradable"

\* C8 witness: a request that was validated with success has been validated
\* again and rejected with ConnectionNotUpgradable.
C8_Witness ==
    \E r \in DOMAIN result :
        /\ result[r].rejection = "ConnectionNotUpgradable"
        /\ \E i \in DOMAIN ctxs : ctxs[i].req = r

\* C9: the response on_upgrade returns for a context without key has status
\* 200, an empty body and none of the headers Connection, Upgrade and
\* Sec-WebSocket-Accept.
C9_PlainResponse ==
    \A j \in DOMAIN responses :
        LET re == responses[j].response
        IN  ctxs[responses[j].ctx].sec_websocket_key = None =>
              /\ re.status = 200
              /\ re.status # 101
              /\ re.body = << >>
              /\ \A h \in HeaderSet(re) :
                    h[1] \notin { CONNECTION, UPGRADE, SEC_WEBSOCKET_ACCEPT }

\* C9 witness: on_upgrade has answered for a context without key.
C9_Witness ==
    \E j \in DOMAIN responses : ctxs[responses[j].ctx].sec_websocket_key = None

\* The response that the key of a context alone determines.
ResponseForKey(key) ==
    IF key = None
    THEN [status |-> 200, headers |-> << >>, body |-> << >>]
    ELSE [status |-> 101,
          headers |-> << << CONNECTION, B_upgrade >>, << UPGRADE, B_websocket >>,
                         << SEC_WEBSOCKET_ACCEPT, AcceptToken(Unwrap(key)) >> >>,
          body |-> << >>]

\* on_upgrade can be called on every context not yet consumed, whatever the
\* state of its pending transport; a spawned task always comes with its
\* response; and every response is the one the context's key determines.
C10_Returned ==
    /\ \A i \in DOMAIN ctxs : ~ctxs[i].consumed => ENABLED on_upgrade(i)
    /\ \A k \in DOMAIN tasks :
          \E j \in DOMAIN responses : responses[j].ctx = tasks[k].ctx
    /\ \A j \in DOMAIN responses :
          responses[j].response
              = ResponseForKey(ctxs[responses[j].ctx].sec_websocket_key)

\* A response, once returned, is never changed or withdrawn.
C10_Kept ==
    \A j \in DOMAIN responses :
        j \in DOMAIN responses' /\ responses'[j] = responses[j]

\* C10: on_upgrade returns its response without waiting for the pending
\* transport (it can be called, and returns, while the transport is pending,
\* resolved or failed); the response is determined by the context's key
\* alone; and no later step, a failure of the transport included, changes a
\* response already returned.
C10_ResponseBeforeTransport == [](C10_Returned) /\ [][C10_Kept]_vars

\* A response has been returned, its transport has failed and the failure
\* callback has run.
C10_WitnessFailed ==
    \E j \in DOMAIN responses, k \in DOMAIN tasks :
        /\ tasks[k].ctx = responses[j].ctx
        /\ tasks[k].pc = "done"
        /\ transport[tasks[k].on_upgrade].state = "Err"

\* C10 witness: a response has been returned while its pending transport is
\* unresolved.
C10_Witness ==
    \E j \in DOMAIN responses :
        transport[ctxs[responses[j].ctx].on_upgrade] = Pending

\* The accept tokens of the keys of GeneratedKeys, in their order, as
\* computed by a reference implementation of SHA-1 and base64.
SignExpected ==
    <<
      \* Kfh9QIsMVZcl6xEPYxPHzW8SZ8w=, from 0 key bytes of 32..126
      <<75,102,104,57,81,73,115,77,86,90,99,108,54,120,69,80,89,120,80,72,122,87,56,83,90,56,119,61>>,
      \* Kfh9QIsMVZcl6xEPYxPHzW8SZ8w=, from 0 key bytes of 128..255
      <<75,102,104,57,81,73,115,77,86,90,99,108,54,120,69,80,89,120,80,72,122,87,56,83,90,56,119,61>>,
      \* ovmuGMjt/R93bpgR9EgKVTBNFJs=, from 1 key bytes of 32..126
      <<111,118,109,117,71,77,106,116,47,82,57,51,98,112,103,82,57,69,103,75,86,84,66,78,70,74,115,61>>,
      \* ak0zbhAoVoujY2y92Ty+VMJQ1Sc=, from 1 key bytes of 128..255
      <<97,107,48,122,98,104,65,111,86,111,117,106,89,50,121,57,50,84,121,43,86,77,74,81,49,83,99,61>>,
      \* g/5O3IgFyTU4n2Mz05C0os7vLKc=, from 2 key bytes of 32..126
      <<103,47,53,79,51,73,103,70,121,84,85,52,110,50,77,122,48,53,67,48,111,115,55,118,76,75,99,61>>,
      \* UqMxL4CcciWX0VVlrbkZOYNuKbo=, from 2 key bytes of 128..255
      <<85,113,77,120,76,52,67,99,99,105,87,88,48,86,86,108,114,98,107,90,79,89,78,117,75,98,111,61>>,
      \* xVxAKCs00d8yf3hA9xpYoHDrFHU=, from 3 key bytes of 32..126
      <<120,86,120,65,75,67,115,48,48,100,56,121,102,51,104,65,57,120,112,89,111,72,68,114,70,72,85,61>>,
      \* t0+XTwalaVndNUc9MJOGu5Q1RjE=, from 3 key bytes of 128..255
      <<116,48,43,88,84,119,97,108,97,86,110,100,78,85,99,57,77,74,79,71,117,53,81,49,82,106,69,61>>,
      \* 5+ElsntiAXMESaTi7oUQp3BhPvM=, from 18 key bytes of 32..126
      <<53,43,69,108,115,110,116,105,65,88,77,69,83,97,84,105,55,111,85,81,112,51,66,104,80,118,77,61>>,
      \* puGI1SjDdbcG6yGqHLgsduXnbUw=, from 18 key bytes of 128..255
      <<112,117,71,73,49,83,106,68,100,98,99,71,54,121,71,113,72,76,103,115,100,117,88,110,98,85,119,61>>,
      \* dxVz2N2UUoFgE4o688WOhNuaou8=, from 19 key bytes of 32..126
      <<100,120,86,122,50,78,50,85,85,111,70,103,69,52,111,54,56,56,87,79,104,78,117,97,111,117,56,61>>,
      \* VjVLVG8kWVIjL44NDI5uacGMZso=, from 19 key bytes of 128..255
      <<86,106,86,76,86,71,56,107,87,86,73,106,76,52,52,78,68,73,53,117,97,99,71,77,90,115,111,61>>,
      \* rKfRDS0FIVmGeFpuWqWvpTj1Goc=, from 20 key bytes of 32..126
      <<114,75,102,82,68,83,48,70,73,86,109,71,101,70,112,117,87,113,87,118,112,84,106,49,71,111,99,61>>,
      \* lVNwiVPyBmgsl3pVzisppOJBHTw=, from 20 key bytes of 128..255
      <<108,86,78,119,105,86,80,121,66,109,103,115,108,51,112,86,122,105,115,112,112,79,74,66,72,84,119,61>>,
      \* /2fZRze//juOsSG5ggURWoXO8Jg=, from 21 key bytes of 32..126
      <<47,50,102,90,82,122,101,47,47,106,117,79,115,83,71,53,103,103,85,82,87,111,88,79,56,74,103,61>>,
      \* LgVz5VMTjacD/7NhRuMeEIRRG1A=, from 21 key bytes of 128..255
      <<76,103,86,122,53,86,77,84,106,97,99,68,47,55,78,104,82,117,77,101,69,73,82,82,71,49,65,61>>,
      \* LKAvjU5A9IOCnFP7gooAxFBIg3A=, from 27 key bytes of 32..126
      <<76,75,65,118,106,85,53,65,57,73,79,67,110,70,80,55,103,111,111,65,120,70,66,73,103,51,65,61>>,
      \* nR1cq7BGdK3jmzWR2gW/0pC/ius=, from 27 key bytes of 128..255
      <<110,82,49,99,113,55,66,71,100,75,51,106,109,122,87,82,50,103,87,47,48,112,67,47,105,117,115,61>>,
      \* XeHXEitSmXHgyglInC+iEVsg89E=, from 28 key bytes of 32..126
      <<88,101,72,88,69,105,116,83,109,88,72,103,121,103,108,73,110,67,43,105,69,86,115,103,56,57,69,61>>,
      \* 3//4QkvhwdrIGJAT4t8WrxzFPq8=, from 28 key bytes of 128..255
      <<51,47,47,52,81,107,118,104,119,100,114,73,71,74,65,84,52,116,56,87,114,120,122,70,80,113,56,61>>,
      \* qLzfKVlBLvyhHXFycpCtoglkS+0=, from 29 key bytes of 32..126
      <<113,76,122,102,75,86,108,66,76,118,121,104,72,88,70,121,99,112,67,116,111,103,108,107,83,43,48,61>>,
      \* yLJ+mipiKXC10qPDJt8yFgq3uHo=, from 29 key bytes of 128..255
      <<121,76,74,43,109,105,112,105,75,88,67,49,48,113,80,68,74,116,56,121,70,103,113,51,117,72,111,61>>,
      \* 75DEn9PLAbeLMCsuBoeD5GQZAfw=, from 83 key bytes of 32..126
      <<55,53,68,69,110,57,80,76,65,98,101,76,77,67,115,117,66,111,101,68,53,71,81,90,65,102,119,61>>,
      \* QHh3UOsE6EqPATQiG8RWBzeXX3o=, from 83 key bytes of 128..255
      <<81,72,104,51,85,79,115,69,54,69,113,80,65,84,81,105,71,56,82,87,66,122,101,88,88,51,111,61>>,
      \* JkDxSU6okE8+zNTTyj4YsKDz0eA=, from 84 key bytes of 32..126
      <<74,107,68,120,83,85,54,111,107,69,56,43,122,78,84,84,121,106,52,89,115,75,68,122,48,101,65,61>>,
      \* 25XiIW4h3YtQz/hSA8bVjaBj9ls=, from 84 key bytes of 128..255
      <<50,53,88,105,73,87,52,104,51,89,116,81,122,47,104,83,65,56,98,86,106,97,66,106,57,108,115,61>>
    >>

\* The reference accept token of key k of SignKeys.
SignReference(k) ==
    IF k \in { B_sample_nonce, B_abc } THEN AcceptToken(k)
    ELSE SignExpected[CHOOSE j \in DOMAIN SignExpected : GeneratedKeys[j] = k]

\* The characters of the standard base64 alphabet: A-Z, a-z, 0-9, + and /.
Base64Alphabet == (65 .. 90) \cup (97 .. 122) \cup (48 .. 57) \cup { 43, 47 }

\* The values of the Sec-WebSocket-Accept headers of response re.
AcceptValues(re) ==
    { re.headers[i][2] : i \in { n \in DOMAIN re.headers : re.headers[n][1] = SEC_WEBSOCKET_ACCEPT } }

\* C11: for every key, of any length and of any bytes, the accept token that
\* on_upgrade puts in its response is the standard padded base64 encoding of
\* the SHA-1 digest of the key followed by the GUID: 27 characters of the
\* standard alphabet and one "=", equal to the reference value of the key
\* whatever else has happened; for the key dGhlIHNhbXBsZSBub25jZQ== it is
\* s3pPLMBiTxaQ9kYGzzhZRbK+xOo=.
C11_SignIsSha1Base64 ==
    \A j \in DOMAIN responses :
        LET key == ctxs[responses[j].ctx].sec_websocket_key
            acc == AcceptValues(responses[j].response)
        IN  /\ IsSome(key)
            /\ \E i \in DOMAIN SignKeys : SignKeys[i] = Unwrap(key)
            /\ acc = { SignReference(Unwrap(key)) }
            /\ \A v \in acc :
                  /\ Len(v) = 28
                  /\ v[28] = 61
                  /\ \A n \in 1 .. 27 : v[n] \in Base64Alphabet
            /\ Unwrap(key) = B_sample_nonce => acc = { B_accept_sample_nonce }

\* C11 witness: a response carries the accept token of a key of 84 bytes of
\* 128..255, whose SHA-1 input takes three blocks.
C11_Witness ==
    \E j \in DOMAIN responses :
        /\ ctxs[responses[j].ctx].sec_websocket_key = Some(SignKey(84, TRUE))
        /\ AcceptValues(responses[j].response) # { }

\* The calls of the failure callback made by task k, in order.
FailureCallsOf(k) == SelectSeq(calls, LAMBDA c : c.task = k /\ c.kind = "on_failed_upgrade")

\* Every task carries the failure callback that its context held when
\* on_upgrade consumed it; a task whose transport has failed has invoked that
\* callback once, and no task has invoked any other failure callback: not the
\* default one once it was replaced, nor an earlier replacement.
C12_LastInstalled ==
    \A k \in DOMAIN tasks :
        LET c == ctxs[tasks[k].ctx]
        IN  /\ c.consumed
            /\ tasks[k].on_failed_upgrade = c.on_failed_upgrade
            /\ c.replaced > 0 => c.on_failed_upgrade \in Callbacks
            /\ c.replaced = 0 => c.on_failed_upgrade = DefaultOnFailedUpgrade
            /\ \A n \in DOMAIN FailureCallsOf(k) :
                  FailureCallsOf(k)[n].by = c.on_failed_upgrade
            /\ Len(FailureCallsOf(k)) =
                  (IF tasks[k].pc = "done" /\ transport[c.on_upgrade].state = "Err"
                   THEN 1 ELSE 0)

\* A step that replaces the failure callback of a context by cb leaves the
\* context with cb as its failure callback and with the key, the pending
\* transport and the subprotocol value it had, and changes nothing else; and
\* no step changes the failure callback of a context already consumed.
C12_OnlyThePolicy ==
    \A i \in DOMAIN ctxs :
        /\ \A cb \in Callbacks :
              on_failed_upgrade(i, cb) =>
                  /\ ctxs'[i].on_failed_upgrade = cb
                  /\ ctxs'[i].sec_websocket_key = ctxs[i].sec_websocket_key
                  /\ ctxs'[i].on_upgrade = ctxs[i].on_upgrade
                  /\ ctxs'[i].sec_websocket_protocol = ctxs[i].sec_websocket_protocol
                  /\ \A j \in DOMAIN ctxs : j # i => ctxs'[j] = ctxs[j]
                  /\ UNCHANGED << parts, transport, tasks, responses, calls >>
        /\ ctxs[i].consumed =>
              ctxs'[i].on_failed_upgrade = ctxs[i].on_failed_upgrade

\* C12: replacing the failure callback of a context changes the failure
\* callback alone (the key, the pending transport and the subprotocol value
\* stay as they were); and after any replacements followed by on_upgrade, a
\* failure of the transport invokes the callback installed last, once, and
\* neither the default callback nor one that was replaced.
C12_ReplaceFailurePolicy == [](C12_LastInstalled) /\ [][C12_OnlyThePolicy]_vars

\* C12 witness: a context that captured a subprotocol value had its failure
\* callback replaced twice; its transport failed and its task has ended,
\* having invoked the callback installed last.
C12_Witness ==
    \E k \in DOMAIN tasks :
        /\ ctxs[tasks[k].ctx].replaced = 2
        /\ ctxs[tasks[k].ctx].sec_websocket_protocol = Some(B_chat)
        /\ tasks[k].pc = "done"
        /\ transport[tasks[k].on_upgrade].state = "Err"
        /\ Len(FailureCallsOf(k)) = 1
        /\ FailureCallsOf(k)[1].by = "countError"

\* The request for which task k was spawned.
RequestOfTask(k) == ctxs[tasks[k].ctx].req

\* C13: with two handshakes in progress, under every interleaving of their
\* tasks and of the resolutions of their transports: a context and its task
\* hold the pending transport of their own request; the callback is invoked
\* only once that transport has succeeded, and with it; the failure callback
\* only once that transport has failed, with its error, and it is the
\* callback of that context; a task whose own transport is pending has made
\* no invocation whatever happened to the other; and a task whose own
\* transport has resolved can resume whatever the state of the other.
C13_Independent ==
    /\ \A i \in DOMAIN ctxs : ctxs[i].on_upgrade = ctxs[i].req
    /\ \A k \in DOMAIN tasks :
        LET r == RequestOfTask(k)
        IN  /\ tasks[k].on_upgrade = r
            /\ transport[r] = Pending => CallsOf(k) = << >>
            /\ (tasks[k].pc = "await" /\ transport[r] # Pending) => ENABLED TaskResume(k)
            /\ \A n \in DOMAIN CallsOf(k) :
                  LET c == CallsOf(k)[n]
                  IN  IF c.kind = "callback"
                      THEN /\ transport[r] = Resolved
                           /\ c.with = << "TokioIo", r >>
                      ELSE /\ transport[r].state = "Err"
                           /\ c.with = << "Error", transport[r].err >>
                           /\ c.by = ctxs[tasks[k].ctx].on_failed_upgrade

\* C13 witness: of two tasks of different requests, one has invoked its
\* failure callback after its transport failed, and the other, spawned
\* first and resumed last, has invoked its callback with its own transport.
C13_Witness ==
    \E k, l \in DOMAIN tasks :
        /\ RequestOfTask(k) # RequestOfTask(l)
        /\ k < l
        /\ Len(calls) = 2
        /\ calls[1].task = l /\ calls[1].kind = "on_failed_upgrade"
        /\ calls[2].task = k /\ calls[2].kind = "callback"
        /\ calls[2].with = << "TokioIo", RequestOfTask(k) >>

\* The first value of header name of p is present and holds "upgrade", in
\* any letter case, at some position.
FirstHoldsUpgrade(p, name) ==
    /\ FirstValue(p, name) # None
    /\ HoldsUpgrade(Unwrap(FirstValue(p, name)))

\* The first value of header name of p is present and is, letter case
\* aside, the whole of text.
FirstEquals(p, name, text) ==
    /\ FirstValue(p, name) # None
    /\ LET v == Unwrap(FirstValue(p, name))
       IN  /\ Len(v) = Len(text)
           /\ \A i \in 1 .. Len(v) : Lower(v[i]) = Lower(text[i])

\* The conditions of the claim on request p, the one on the Connection header
\* given as connection_ok.
AcceptedWhen(p, connection_ok) ==
    /\ IF p.version \in { HTTP_09, HTTP_10, HTTP_11 }
       THEN /\ p.method = "GET"
            /\ connection_ok
            /\ FirstEquals(p, UPGRADE, B_websocket)
            /\ FirstValue(p, SEC_WEBSOCKET_KEY) # None
       ELSE /\ p.method = "CONNECT"
            /\ http2 => p.protocol = Some(B_websocket)
    /\ FirstValue(p, SEC_WEBSOCKET_VERSION) = Some(B_13)
    /\ p.on_upgrade # None

\* C14 as stated: the validator returns a context exactly when the request
\* meets the conditions of its version branch, the one on the Connection
\* header being that its lower-cased value contains "upgrade".
C14_AsStated ==
    \A r \in DOMAIN result :
        Called(r) =>
            (result[r].tag = "Ok")
                = AcceptedWhen(result[r].given, FirstHoldsUpgrade(result[r].given, CONNECTION))

\* The eight rejections.
Rejections ==
    { "MethodNotGet", "InvalidConnectionHeader", "InvalidUpgradeHeader",
      "WebSocketKeyHeaderMissing", "MethodNotConnect", "InvalidProtocolPseudoheader",
      "InvalidWebSocketVersionHeader", "ConnectionNotUpgradable" }

\* C14 (amended): the validator returns a context exactly when the request
\* meets the conditions of its version branch, the one on the Connection
\* header being that its value is well-formed UTF-8 and, lower-cased, contains
\* "upgrade"; every other request is rejected.  A GET request of version
\* <= HTTP/1.1 with such a Connection value and the Upgrade value
\* "websocket, h2c" is rejected with InvalidUpgradeHeader.
C14_AcceptedIff ==
    \A r \in DOMAIN result :
        Called(r) =>
            LET p == result[r].given
                connection_ok == /\ FirstHoldsUpgrade(p, CONNECTION)
                                 /\ from_utf8_ok(Unwrap(FirstValue(p, CONNECTION)))
            IN  /\ (result[r].tag = "Ok") = AcceptedWhen(p, connection_ok)
                /\ (result[r].tag # "Ok") =>
                      result[r].tag = "Err" /\ result[r].rejection \in Rejections
                /\ (p.version <= HTTP_11 /\ p.method = "GET" /\ connection_ok
                        /\ FirstValue(p, UPGRADE) = Some(B_websocket_h2c))
                      => result[r].rejection = "InvalidUpgradeHeader"

\* C14 witness: a request whose Connection value is "upgrade" followed by
\* bytes that are not UTF-8, and which meets every other condition, has been
\* rejected.
C14_Witness ==
    \E r \in DOMAIN result :
        /\ result[r].tag = "Err"
        /\ FirstValue(result[r].given, CONNECTION) = Some(B_upgrade_ff)
        /\ AcceptedWhen(result[r].given, TRUE)

\* Request p with its Sec-WebSocket-Protocol headers replaced by those of the
\* values s (none if s is empty).
WithSubprotocol(p, s) ==
    [p EXCEPT !.headers = SelectSeq(p.headers, LAMBDA h : h[1] # SEC_WEBSOCKET_PROTOCOL)
                              \o HeadersOf(SEC_WEBSOCKET_PROTOCOL, s)]

\* The requests that differ from p in the presence or the value of
\* Sec-WebSocket-Protocol only.
SubprotocolVariants(p) ==
    { WithSubprotocol(p, s) : s \in { << >>, << B_chat >>, << B_upgrade >>, << B_13, B_chat >> } }

\* The request of context number i as it was given to the validator.
GivenOf(i) == [parts[ctxs[i].req] EXCEPT !.on_upgrade = Some(ctxs[i].on_upgrade)]

\* C15: what the validator returned for a request (success, or which
\* rejection, and on success which key and which pending transport) is what
\* it returns for every request that differs from it in Sec-WebSocket-Protocol
\* only; a context holds the first Sec-WebSocket-Protocol value of its request
\* as it was received, and none if the request has none; the response of
\* on_upgrade is the response to every such other request and has no
\* Sec-WebSocket-Protocol header.
C15_SubprotocolIgnored ==
    /\ \A r \in DOMAIN result :
          Called(r) =>
              \A q \in SubprotocolVariants(result[r].given) :
                  LET res == from_request_parts(q, http2)
                  IN  /\ res.tag = result[r].tag
                      /\ res.rejection = result[r].rejection
                      /\ res.tag = "Ok" =>
                            /\ res.sec_websocket_key = ctxs[result[r].ctx].sec_websocket_key
                            /\ Unwrap(res.on_upgrade) = ctxs[result[r].ctx].on_upgrade
                            /\ res.sec_websocket_protocol = FirstValue(q, SEC_WEBSOCKET_PROTOCOL)
    /\ \A i \in DOMAIN ctxs :
          ctxs[i].sec_websocket_protocol = FirstValue(RequestOf(i), SEC_WEBSOCKET_PROTOCOL)
    /\ \A j \in DOMAIN responses :
          /\ \A h \in HeaderSet(responses[j].response) : h[1] # SEC_WEBSOCKET_PROTOCOL
          /\ \A q \in SubprotocolVariants(GivenOf(responses[j].ctx)) :
                LET res == from_request_parts(q, http2)
                IN  /\ res.tag = "Ok"
                    /\ ResponseOf([sec_websocket_key |-> res.sec_websocket_key,
                                   sec_websocket_protocol |-> res.sec_websocket_protocol])
                          = responses[j].response

\* C15 witness: on_upgrade has answered with 101 for a context that holds
\* the Sec-WebSocket-Protocol value "chat" of its request.
C15_Witness ==
    \E j \in DOMAIN responses :
        /\ ctxs[responses[j].ctx].sec_websocket_protocol = Some(B_chat)
        /\ FirstValue(RequestOf(responses[j].ctx), SEC_WEBSOCKET_PROTOCOL) = Some(B_chat)
        /\ responses[j].response.status = 101

\* The tasks spawned for context number i.
TasksOf(i) == { k \in DOMAIN tasks : tasks[k].ctx = i }

\* A context on which on_upgrade has been called has one task, and a context
\* on which it has not has none, whatever the state of its pending
\* transport; every invocation was made by the task of a context on which
\* on_upgrade has been called and whose pending transport has resolved.
C16_OneTaskPerFinalize ==
    /\ \A i \in DOMAIN ctxs :
          Cardinality(TasksOf(i)) = (IF ctxs[i].consumed THEN 1 ELSE 0)
    /\ \A k \in DOMAIN tasks : tasks[k].ctx \in DOMAIN ctxs
    /\ \A n \in DOMAIN calls :
          /\ calls[n].task \in DOMAIN tasks
          /\ ctxs[tasks[calls[n].task].ctx].consumed
          /\ transport[ctxs[tasks[calls[n].task].ctx].on_upgrade] # Pending

\* A step of the validator or of on_failed_upgrade spawns no task; a step
\* that spawns one is a step of on_upgrade on a context not yet consumed, and
\* spawns one task, awaiting the pending transport of that context; no task
\* is ever removed.
C16_SpawnedByFinalize ==
    /\ (\E r \in DOMAIN parts : Validate(r)) => tasks' = tasks
    /\ (\E i \in DOMAIN ctxs, cb \in Callbacks : on_failed_upgrade(i, cb)) => tasks' = tasks
    /\ Len(tasks') >= Len(tasks)
    /\ Len(tasks') # Len(tasks) =>
          /\ Len(tasks') = Len(tasks) + 1
          /\ \E i \in DOMAIN ctxs :
                /\ ~ctxs[i].consumed /\ ctxs'[i].consumed
                /\ on_upgrade(i)
                /\ tasks'[Len(tasks')].ctx = i
                /\ tasks'[Len(tasks')].on_upgrade = ctxs[i].on_upgrade
                /\ tasks'[Len(tasks')].pc = "await"

\* C16: on_upgrade, and nothing else, starts the task, one per call: neither
\* the validator nor on_failed_upgrade does; every invocation of the callback
\* or of the failure callback comes after on_upgrade on its context and
\* after the resolution of its pending transport; a context on which
\* on_upgrade is not called has no task awaiting its pending transport and
\* no invocation, even when the transport has resolved.
C16_HandoffAtFinalize == [](C16_OneTaskPerFinalize) /\ [][C16_SpawnedByFinalize]_vars

\* C16 witness: the failure callback of a context has been replaced, its
\* pending transport has resolved, on_upgrade has not been called on it, and
\* there is no task and no invocation.
C16_Witness ==
    \E i \in DOMAIN ctxs :
        /\ ~ctxs[i].consumed
        /\ ctxs[i].replaced > 0
        /\ transport[ctxs[i].on_upgrade] = Resolved
        /\ tasks = << >>
        /\ calls = << >>

\* Task k has invoked the callback / the failure callback.
InvokedCallback(k) == \E n \in DOMAIN calls : calls[n].task = k /\ calls[n].kind = "callback"
InvokedFailure(k) == \E n \in DOMAIN calls : calls[n].task = k /\ calls[n].kind = "on_failed_upgrade"

\* While the pending transport of a task has not resolved the task has
\* invoked nothing and has not ended; a task that has ended has made its one
\* invocation.
C17_NothingWhilePending ==
    \A k \in DOMAIN tasks :
        /\ transport[tasks[k].on_upgrade] = Pending =>
              /\ ~InvokedCallback(k) /\ ~InvokedFailure(k)
              /\ tasks[k].pc = "await"
        /\ tasks[k].pc = "done" => Len(CallsOf(k)) = 1
        /\ tasks[k].pc = "callback" => InvokedCallback(k)

\* A task ends in the step in which it invokes the failure callback, which
\* returns at once, or in a later step than the invocation of the callback,
\* when the callback's future completes.
C17_EndsAfter ==
    \A k \in DOMAIN tasks :
        (tasks[k].pc # "done" /\ tasks'[k].pc = "done") =>
            \/ tasks[k].pc = "callback" /\ InvokedCallback(k) /\ calls' = calls
            \/ tasks[k].pc = "await" /\ ~InvokedFailure(k) /\ InvokedFailure(k)'

\* C17: with the spawned tasks scheduled fairly, once on_upgrade has spawned
\* the task of a context: if the pending transport resolves with success the
\* callback is eventually invoked, if it resolves with failure the failure
\* callback is eventually invoked; the task ends after the failure callback
\* returns or after the callback's future completes; and as long as the
\* pending transport has not resolved neither is invoked.
C17_EventuallyInvoked ==
    /\ [](C17_NothingWhilePending)
    /\ [][C17_EndsAfter]_vars
    /\ \A k \in 1 .. MaxCtxs :
          /\ (k \in DOMAIN tasks /\ transport[tasks[k].on_upgrade] = Resolved)
                ~> (k \in DOMAIN tasks /\ InvokedCallback(k))
          /\ (k \in DOMAIN tasks /\ transport[tasks[k].on_upgrade].state = "Err")
                ~> (k \in DOMAIN tasks /\ InvokedFailure(k))

\* C17 witness: a task has ended after the callback's future completed, its
\* pending transport having resolved with success after on_upgrade.
C17_Witness ==
    \E k \in DOMAIN tasks :
        /\ tasks[k].pc = "done"
        /\ transport[tasks[k].on_upgrade] = Resolved
        /\ InvokedCallback(k)

\* After a rejection the request parts are those the validator was given:
\* version, method, headers, :protocol and the extension slot, with the
\* pending transport if there was one; after a success they are those it was
\* given but for the pending transport, which is gone from the slot.
C18_PartsAfterCall ==
    \A r \in DOMAIN result :
        /\ result[r].tag = "Err" =>
              /\ result[r].rejection \in Rejections
              /\ parts[r] = result[r].given
        /\ result[r].tag = "Ok" =>
              /\ parts[r].version = result[r].given.version
              /\ parts[r].method = result[r].given.method
              /\ parts[r].headers = result[r].given.headers
              /\ parts[r].protocol = result[r].given.protocol
              /\ result[r].given.on_upgrade # None
              /\ parts[r].on_upgrade = None
        /\ result[r].tag = "NotCalled" => parts[r] = result[r].given

\* A step changes the parts of a request only by taking the pending
\* transport out of its slot, and only in a validation that succeeds.
C18_OnlyTheSlot ==
    \A r \in DOMAIN parts :
        parts'[r] # parts[r] =>
            /\ parts'[r] = [parts[r] EXCEPT !.on_upgrade = None]
            /\ result'[r].tag = "Ok"
            /\ Len(ctxs') = Len(ctxs) + 1

\* C18: the validator changes nothing of the request parts when it rejects
\* (any of the eight rejections), so that a pending transport present before
\* is still in the slot; when it succeeds it changes nothing but the slot,
\* from which the pending transport is gone.
C18_RequestUntouched == [](C18_PartsAfterCall) /\ [][C18_OnlyTheSlot]_vars

\* C18 witness: a request that carries a pending transport has been rejected
\* by the last check before the slot, and the pending transport is still in
\* the slot.
C18_Witness ==
    \E r \in DOMAIN result :
        /\ result[r].rejection = "InvalidWebSocketVersionHeader"
        /\ result[r].given.on_upgrade = Some(r)
        /\ parts[r].on_upgrade = Some(r)

\* The values of header name of p, in arrival order.
ValuesOf(p, name) ==
    LET hs == SelectSeq(p.headers, LAMBDA h : h[1] = name)
    IN  [i \in DOMAIN hs |-> hs[i][2]]

\* Request p with, of every header name, only the value that arrived first.
FirstOnly(p) ==
    [p EXCEPT !.headers =
        SelectSeq([i \in DOMAIN p.headers |->
                      IF \E j \in 1 .. (i - 1) : p.headers[j][1] = p.headers[i][1]
                      THEN << "-", << >> >> ELSE p.headers[i]],
                  LAMBDA h : h[1] # "-")]

\* C19: when Connection, Upgrade, Sec-WebSocket-Version or Sec-WebSocket-Key
\* occurs several times, the validator goes by the first value: it returns
\* what it returns for the request reduced to its first values; a GET
\* HTTP/1.1 request with the Connection values keep-alive, upgrade is
\* rejected with InvalidConnectionHeader, and with upgrade, keep-alive it
\* passes the Connection check; it passes the Upgrade check exactly when the
\* first Upgrade value is websocket, and the Sec-WebSocket-Version check
\* exactly when the first value is 13; the key of the context is the first
\* Sec-WebSocket-Key value.
C19_FirstValueOnly ==
    \A r \in DOMAIN result :
        Called(r) =>
            LET p == result[r].given
                rej == result[r].rejection
                first == from_request_parts(FirstOnly(p), http2)
                h1 == p.version <= HTTP_11 /\ p.method = "GET"
            IN  /\ first.tag = result[r].tag
                /\ first.rejection = rej
                /\ (h1 /\ ValuesOf(p, CONNECTION) = << B_keepalive, B_upgrade >>)
                      => rej = "InvalidConnectionHeader"
                /\ (h1 /\ ValuesOf(p, CONNECTION) = << B_upgrade, B_keepalive >>)
                      => /\ rej \notin { "MethodNotGet", "InvalidConnectionHeader" }
                         /\ (rej = "InvalidUpgradeHeader")
                               = (ValuesOf(p, UPGRADE) = << B_h2c, B_websocket >>)
                /\ (rej \notin { "MethodNotGet", "InvalidConnectionHeader",
                                  "InvalidUpgradeHeader", "WebSocketKeyHeaderMissing",
                                  "MethodNotConnect", "InvalidProtocolPseudoheader" })
                      => (rej = "InvalidWebSocketVersionHeader")
                            = (FirstValue(p, SEC_WEBSOCKET_VERSION) # Some(B_13))
                /\ result[r].tag = "Ok" =>
                      /\ ctxs[result[r].ctx].sec_websocket_key
                            = (IF p.version <= HTTP_11
                               THEN Some(ValuesOf(p, SEC_WEBSOCKET_KEY)[1]) ELSE None)
                      /\ first.sec_websocket_key = ctxs[result[r].ctx].sec_websocket_key

\* C19 witness: a GET HTTP/1.1 request in which each of the four headers
\* occurs twice, with the passing value first, has been accepted, and the key
\* of its context is the first of its two keys.
C19_Witness ==
    \E r \in DOMAIN result :
        /\ result[r].tag = "Ok"
        /\ ValuesOf(result[r].given, CONNECTION) = << B_upgrade, B_keepalive >>
        /\ ValuesOf(result[r].given, UPGRADE) = << B_websocket, B_h2c >>
        /\ ValuesOf(result[r].given, SEC_WEBSOCKET_VERSION) = << B_13, B_12 >>
        /\ ValuesOf(result[r].given, SEC_WEBSOCKET_KEY) = << B_abc, B_sample_nonce >>
        /\ ctxs[result[r].ctx].sec_websocket_key = Some(B_abc)

====
